---- MODULE Spec2Model ----
\* State-machine model of the SceneJS "geometry" backend
\* (src/src/scenejs/geometry/geometryBackend.js): the geometry cache, its
\* LRU evictor, the lifecycle event handlers and the draw-time fast path.
EXTENDS Integers, Sequences, FiniteSets, TLC

\* ------------------------------------------------------------------ bounds
\* Largest value of the logical clock pushed by TIME_UPDATED.
MaxTime == 2
\* Largest number of evictor invocations the memory authority makes while
\* serving one allocation request or one SHADER_ACTIVATE notification.
MaxEvictCalls == 1

\* Canvas identifiers (canvas.canvasId) and geometry type strings.
CanvasIds == {"c1", "c2"}
Types == {"a"}

\* ------------------------------------------------------------- JS values
\* canvas = null / undefined
NoCanvas == ""
\* currentBoundGeo = null / undefined, and the null result of findGeometry
NullId == ""
\* geometries[geoId] = null (or a missing key)
Null == [null |-> TRUE]
\* an undefined buffer variable (texCoordBuf when data.uv is absent)
NoBuf == [ctx |-> "", owner |-> "", kind |-> "undefined", held |-> FALSE]

\* new SceneJS._webgl.ArrayBuffer(context, ...): a device buffer of a context.
\* A buffer object is named by its context, the geometry type it was
\* created for and its role; held tells the buffers of the record the
\* cache holds from those the running createGeometry call is creating.
ArrayBuffer(c, owner, kind) == [ctx |-> c, owner |-> owner, kind |-> kind, held |-> FALSE]

\* The name a buffer has once a cached record holds it.
Held(buf) == IF buf = NoBuf THEN NoBuf ELSE [buf EXCEPT !.held = TRUE]

\* geoId = canvas.canvasId + ":" + type
GeoIdOf(canvasId, type) == canvasId \o ":" \o type

AllGeoIds == {GeoIdOf(c, ty) : c \in CanvasIds, ty \in Types}

\* One entry of the record of calls made by an operation: notifications
\* fired on the event bus, device calls, buffer allocations and releases.
Ev(e, id, buf, n) == [ev |-> e, id |-> id, buf |-> buf, n |-> n]

\* ------------------------------------------------- the geometries object
\* A JS object keeps its string keys in insertion order; assigning to an
\* existing key keeps the key's place. geometries is the sequence of
\* [geoId, geo] pairs in that order; geo is a record or Null.
HasKey(g, k) == \E i \in 1..Len(g) : g[i].geoId = k

KeyIndex(g, k) == CHOOSE i \in 1..Len(g) : g[i].geoId = k

\* geometries[k]
Get(g, k) == IF HasKey(g, k) THEN g[KeyIndex(g, k)].geo ELSE Null

\* geometries[k] = v
Put(g, k, v) ==
    IF HasKey(g, k)
    THEN [g EXCEPT ![KeyIndex(g, k)] = [geoId |-> k, geo |-> v]]
    ELSE Append(g, [geoId |-> k, geo |-> v])

\* The identifiers that resolve to a live record.
LiveIds(g) == {g[i].geoId : i \in {j \in 1..Len(g) : g[j].geo # Null}}

\* The buffers a record holds.
BuffersOf(geo) ==
    {geo.vertexBuf, geo.normalBuf, geo.indexBuf, geo.texCoordBuf} \ {NoBuf}

\* The buffers held by the records of the cache.
OwnedBuffers(g) ==
    UNION {BuffersOf(g[i].geo) : i \in {j \in 1..Len(g) : g[j].geo # Null}}

\* -------------------------------------------------------- destroyGeometry
\* buf.destroy(): release one device buffer.
DestroyBuffer(m, buf) ==
    [m EXCEPT !.calls = Append(@, Ev("destroy", "", buf, 0))]

\* if (cond) buf.destroy()
ReleaseIf(m, cond, buf) == IF cond THEN DestroyBuffer(m, buf) ELSE m

\* A release that does not look whether the owning canvas is still there.
ReleaseBuffers_IgnoresCanvas(m, geo, doc) ==
    ReleaseIf(ReleaseIf(ReleaseIf(ReleaseIf(m,
        geo.vertexBuf # NoBuf, geo.vertexBuf),
        geo.normalBuf # NoBuf, geo.normalBuf),
        geo.normalBuf # NoBuf, geo.indexBuf),
        geo.texCoordBuf # NoBuf, geo.texCoordBuf)

\* The body of the getElementById test of destroyGeometry: the vertex and
\* normal buffers, the index buffer (under the test of normalBuf) and the
\* texcoord buffer are released when the owning canvas is in the document.
ReleaseBuffers(m, geo, doc) ==
    IF geo.canvas \in doc
    THEN ReleaseIf(ReleaseIf(ReleaseIf(ReleaseIf(m,
             geo.vertexBuf # NoBuf, geo.vertexBuf),
             geo.normalBuf # NoBuf, geo.normalBuf),
             geo.normalBuf # NoBuf, geo.indexBuf),
             geo.texCoordBuf # NoBuf, geo.texCoordBuf)
    ELSE m

\* if (geo.geoId == currentBoundGeo) currentBoundGeo = null
UnbindIf(m, geoId) ==
    IF geoId = m.currentBoundGeo THEN [m EXCEPT !.currentBoundGeo = NullId] ELSE m

\* geometries[geo.geoId] = null
StoreNull(m, geoId) == [m EXCEPT !.geometries = Put(@, geoId, Null)]

\* destroyGeometry(geo) for a record: clear the marker if it names geo,
\* release the buffers when the owning canvas is still in the document, and
\* store null under the key.
DestroyRecord(m, geo, doc) ==
    StoreNull(
        ReleaseBuffers(
            UnbindIf([m EXCEPT !.calls = Append(@, Ev("destroyGeometry", geo.geoId, NoBuf, 0))],
                     geo.geoId),
            geo, doc),
        geo.geoId)

\* destroyGeometry(geo): its first statement reads geo.type, a TypeError
\* when geo is null.
destroyGeometry(m, geo, doc) ==
    IF geo = Null
    THEN [m EXCEPT !.exc = "TypeError"]
    ELSE DestroyRecord(m, geo, doc)

\* ----------------------------------------------------------- the evictor
\* The scan of the evictor: keys in enumeration order, earliest starts at
\* the current time, a null entry raises a TypeError at geo.lastUsed.
RECURSIVE EvictScan(_, _, _, _, _)
EvictScan(g, i, earliest, evictee, doc) ==
    IF i > Len(g)
    THEN [threw |-> FALSE, evictee |-> evictee]
    ELSE IF g[i].geo = Null
         THEN [threw |-> TRUE, evictee |-> evictee]
         ELSE IF g[i].geo.lastUsed < earliest /\ g[i].geo.canvas \in doc
              THEN EvictScan(g, i + 1, g[i].geo.lastUsed, g[i].geo, doc)
              ELSE EvictScan(g, i + 1, earliest, evictee, doc)

\* The statements after the scan: destroy the evictee and return true, or
\* return false.
EvictFound(m, scan, doc) ==
    IF scan.threw
    THEN [m EXCEPT !.exc = "TypeError",
                   !.calls = Append(@, Ev("evict-error", "", NoBuf, 0))]
    ELSE IF scan.evictee # Null
         THEN [destroyGeometry(
                   [m EXCEPT !.calls = Append(@, Ev("evicted", scan.evictee.geoId, NoBuf,
                                                    scan.evictee.lastUsed))],
                   scan.evictee, doc)
               EXCEPT !.ret = "true"]
         ELSE [m EXCEPT !.ret = "false",
                        !.calls = Append(@, Ev("evict-none", "", NoBuf, 0))]

\* An evictor whose scan also admits the records used at the current time.
Evictor_AdmitsCurrent(m, t, doc) ==
    EvictFound(m, EvictScan(m.geometries, 1, t + 1, Null, doc), doc)

\* The callback given to ctx.memory.registerEvictor. m.ret is "true",
\* "false", or m.exc is "TypeError".
Evictor(m, t, doc) == EvictFound(m, EvictScan(m.geometries, 1, t, Null, doc), doc)

\* k invocations of the evictor in a row; an exception ends the row.
RECURSIVE EvictTimes(_, _, _, _)
EvictTimes(m, k, t, doc) ==
    IF k = 0 \/ m.exc # ""
    THEN m
    ELSE EvictTimes(Evictor(m, t, doc), k - 1, t, doc)

\* ----------------------------------------------------- buffer allocation
\* What the memory authority does with one allocation request: it invokes
\* the registered evictor `evicts` times and then grants or rejects.
Gates == [evicts : 0..MaxEvictCalls, grant : BOOLEAN]

\* The authority's decision once it has tried to make room: an exception of
\* the evictor propagates; a rejection raises OutOfVRAMException; a grant
\* runs tryAllocate, which creates buf.
Decide(m, gate, buf) ==
    IF m.exc # ""
    THEN m
    ELSE IF gate.grant
         THEN [m EXCEPT !.calls = Append(@, Ev("alloc", "", buf, 0))]
         ELSE [m EXCEPT !.exc = "OutOfVRAMException"]

\* ctx.memory.allocate(description, tryAllocate): the allocation gate.
Allocate(m, gate, buf, t, doc) == Decide(EvictTimes(m, gate.evicts, t, doc), gate, buf)

\* createArrayBuffer(description, context, type, values, ...): the values
\* argument is evaluated first (a TypeError when the data array is absent),
\* then the buffer is allocated through the gate.
createArrayBuffer(m, present, gate, buf, t, doc) ==
    IF ~present
    THEN [m EXCEPT !.exc = "TypeError"]
    ELSE Allocate(m, gate, buf, t, doc)

\* getPrimitiveType(context, type): the WebGL constant, or "" where the
\* code throws InvalidGeometryConfigException.
getPrimitiveType(type) ==
    CASE type = "points" -> "POINTS"
      [] type = "lines" -> "LINES"
      [] type = "line-loop" -> "LINE_LOOP"
      [] type = "line-strip" -> "LINE_STRIP"
      [] type = "triangles" -> "TRIANGLES"
      [] type = "triangle-strip" -> "TRIANGLE_STRIP"
      [] type = "triangle-fan" -> "TRIANGLE_FAN"
      [] OTHER -> ""

\* A catch block that forgets the index buffer.
CreateCatch_KeepsIndex(m, vertexBuf, normalBuf, texCoordBuf, indexBuf) ==
    ReleaseIf(ReleaseIf(ReleaseIf(m,
        vertexBuf # NoBuf, vertexBuf),
        normalBuf # NoBuf, normalBuf),
        texCoordBuf # NoBuf, texCoordBuf)

\* The catch block of createGeometry: release whatever buffers the call
\* allocated (those created before the exception) and rethrow.
CreateCatch(m, vertexBuf, normalBuf, texCoordBuf, indexBuf) ==
    ReleaseIf(ReleaseIf(ReleaseIf(ReleaseIf(m,
        vertexBuf # NoBuf, vertexBuf),
        normalBuf # NoBuf, normalBuf),
        texCoordBuf # NoBuf, texCoordBuf),
        indexBuf # NoBuf, indexBuf)

\* The record createGeometry builds.
NewGeo(cv, t, type, data, vertexBuf, normalBuf, texCoordBuf, indexBuf) ==
    [fixed |-> TRUE, primitive |-> getPrimitiveType(data.primitive), type |-> type,
     geoId |-> GeoIdOf(cv, type), lastUsed |-> t, canvas |-> cv,
     vertexBuf |-> Held(vertexBuf), normalBuf |-> Held(normalBuf),
     indexBuf |-> Held(indexBuf), texCoordBuf |-> Held(texCoordBuf)]

\* A try block that stores the record before the primitive is resolved.
CreateInsert_StoresFirst(m, cv, t, type, data, vertexBuf, normalBuf, texCoordBuf, indexBuf) ==
    IF getPrimitiveType(data.primitive) = ""
    THEN [m EXCEPT !.geometries = Put(@, GeoIdOf(cv, type),
                       NewGeo(cv, t, type, data, vertexBuf, normalBuf, texCoordBuf, indexBuf)),
                   !.exc = "InvalidGeometryConfigException"]
    ELSE [m EXCEPT !.geometries = Put(@, GeoIdOf(cv, type),
                       NewGeo(cv, t, type, data, vertexBuf, normalBuf, texCoordBuf, indexBuf)),
                   !.ret = GeoIdOf(cv, type)]

\* The last statements of the try block: build the record, store it under
\* geoId and return geoId; getPrimitiveType may throw first.
CreateInsert(m, cv, t, type, data, vertexBuf, normalBuf, texCoordBuf, indexBuf) ==
    IF getPrimitiveType(data.primitive) = ""
    THEN [m EXCEPT !.exc = "InvalidGeometryConfigException"]
    ELSE [m EXCEPT !.geometries = Put(@, GeoIdOf(cv, type),
                       NewGeo(cv, t, type, data, vertexBuf, normalBuf, texCoordBuf, indexBuf)),
                   !.ret = GeoIdOf(cv, type)]

\* The end of createGeometry: the catch block when the try block threw
\* (s is the state at the throw), the return otherwise.
CreateEnd(s, vertexBuf, normalBuf, texCoordBuf, indexBuf) ==
    IF s.exc # ""
    THEN CreateCatch(s, vertexBuf, normalBuf, texCoordBuf, indexBuf)
    ELSE s

\* The try block from the index buffer on; s4 is the state after
\* indexBuf = createArrayBuffer(...).
CreateIndex(s4, cv, t, type, data, vertexBuf, normalBuf, texCoordBuf) ==
    IF s4.exc # ""
    THEN CreateEnd(s4, vertexBuf, normalBuf, texCoordBuf, NoBuf)
    ELSE CreateEnd(CreateInsert(s4, cv, t, type, data, vertexBuf, normalBuf, texCoordBuf,
                                ArrayBuffer(cv, type, "index")),
                   vertexBuf, normalBuf, texCoordBuf, ArrayBuffer(cv, type, "index"))

\* The try block from the texcoord buffer on; s3 is the state after
\* if (data.uv) texCoordBuf = createArrayBuffer(...).
CreateTexCoord(s3, cv, t, doc, type, data, gates, vertexBuf, normalBuf) ==
    IF s3.exc # ""
    THEN CreateEnd(s3, vertexBuf, normalBuf, NoBuf, NoBuf)
    ELSE CreateIndex(
             createArrayBuffer(s3, data.missing # "indices", gates[4],
                               ArrayBuffer(cv, type, "index"), t, doc),
             cv, t, type, data, vertexBuf, normalBuf,
             IF data.uv THEN ArrayBuffer(cv, type, "texcoord") ELSE NoBuf)

\* The try block from the normal buffer on; s2 is the state after
\* normalBuf = createArrayBuffer(...).
CreateNormal(s2, cv, t, doc, type, data, gates, vertexBuf) ==
    IF s2.exc # ""
    THEN CreateEnd(s2, vertexBuf, NoBuf, NoBuf, NoBuf)
    ELSE CreateTexCoord(
             IF data.uv
             THEN createArrayBuffer(s2, TRUE, gates[3],
                                    ArrayBuffer(cv, type, "texcoord"), t, doc)
             ELSE s2,
             cv, t, doc, type, data, gates, vertexBuf, ArrayBuffer(cv, type, "normal"))

\* The try block from the vertex buffer on; s1 is the state after
\* vertexBuf = createArrayBuffer(...).
CreateVertex(s1, cv, t, doc, type, data, gates) ==
    IF s1.exc # ""
    THEN CreateEnd(s1, NoBuf, NoBuf, NoBuf, NoBuf)
    ELSE CreateNormal(
             createArrayBuffer(s1, data.missing # "normals", gates[2],
                               ArrayBuffer(cv, type, "normal"), t, doc),
             cv, t, doc, type, data, gates, ArrayBuffer(cv, type, "vertex"))

\* createGeometry(type, data). gates[i] is the authority's behaviour at
\* the i-th allocation (vertex, normal, texcoord, index).
createGeometry(m, cv, t, doc, type, data, gates) ==
    IF cv = NoCanvas
    THEN [m EXCEPT !.exc = "NoCanvasActiveException"]
    ELSE IF data.primitive = ""
    THEN [m EXCEPT !.exc = "NodeConfigExpectedException"]
    ELSE CreateVertex(
             createArrayBuffer(m, data.missing # "positions", gates[1],
                               ArrayBuffer(cv, type, "vertex"), t, doc),
             cv, t, doc, type, data, gates)

\* A lookup that forgets the canvas prefix of the identifier.
findGeometry_ByType(m, cv, type) ==
    IF cv = NoCanvas
    THEN [m EXCEPT !.exc = "NoCanvasActiveException"]
    ELSE [m EXCEPT !.ret = IF Get(m.geometries, type) # Null THEN type ELSE "null"]

\* findGeometry(type)
findGeometry(m, cv, type) ==
    IF cv = NoCanvas
    THEN [m EXCEPT !.exc = "NoCanvasActiveException"]
    ELSE LET geoId == GeoIdOf(cv, type) IN
         [m EXCEPT !.ret = IF Get(m.geometries, geoId) # Null THEN geoId ELSE "null"]

\* ------------------------------------------------------------ drawGeometry
\* Number of generic vertex-attribute slots disabled before an export.
NumAttribSlots == 8

\* for (i = 0; i < 8; i++) context.disableVertexAttribArray(i)
RECURSIVE DisableSlots(_, _)
DisableSlots(calls, i) ==
    IF i >= NumAttribSlots
    THEN calls
    ELSE DisableSlots(Append(calls, Ev("disableVertexAttribArray", "", NoBuf, i)), i + 1)

\* What the shader backend does on SHADER_ACTIVATE: compiling a shader may
\* put the memory authority under pressure (evictor invocations), and a
\* newly activated shader is announced with SHADER_ACTIVATED.
Reactions == [evicts : 0..MaxEvictCalls, activated : BOOLEAN]

\* The SHADER_ACTIVATED and SHADER_DEACTIVATED handlers.
ClearMarker(m) == [m EXCEPT !.currentBoundGeo = NullId]

\* The shader backend's announcement after it handled SHADER_ACTIVATE.
Announce(m, react) ==
    IF m.exc # "" \/ ~react.activated
    THEN m
    ELSE ClearMarker([m EXCEPT !.calls = Append(@, Ev("SHADER_ACTIVATED", "", NoBuf, 0))])

\* ctx.events.fireEvent(SHADER_ACTIVATE), with the shader backend's reaction.
FireShaderActivate(m, react, t, doc) ==
    Announce(EvictTimes([m EXCEPT !.calls = Append(@, Ev("SHADER_ACTIVATE", "", NoBuf, 0))],
                        react.evicts, t, doc),
             react)

\* An export/bind step that binds the index buffer before it exports.
ExportAndBind_BindsFirst(m, geo, geoId) ==
    IF m.currentBoundGeo # geoId
    THEN [m EXCEPT !.calls = Append(Append(DisableSlots(@, 0),
                                 Ev("bind", "", geo.indexBuf, 0)),
                                 Ev("GEOMETRY_EXPORTED", geo.geoId, geo.vertexBuf, 0)),
                   !.currentBoundGeo = geoId]
    ELSE m

\* An export/bind step that ignores the marker.
ExportAndBind_Always(m, geo, geoId) ==
    [m EXCEPT !.calls = Append(Append(DisableSlots(@, 0),
                          Ev("GEOMETRY_EXPORTED", geo.geoId, geo.vertexBuf, 0)),
                          Ev("bind", "", geo.indexBuf, 0)),
              !.currentBoundGeo = geoId]

\* The export/bind step of drawGeometry, taken when the marker differs.
ExportAndBind(m, geo, geoId) ==
    IF m.currentBoundGeo # geoId
    THEN [m EXCEPT !.calls = Append(Append(DisableSlots(@, 0),
                                 Ev("GEOMETRY_EXPORTED", geo.geoId, geo.vertexBuf, 0)),
                                 Ev("bind", "", geo.indexBuf, 0)),
                   !.currentBoundGeo = geoId]
    ELSE m

\* if (!geo.fixed) { destroyGeometry(geo); currentBoundGeo = null }
DrawEnd(m, geo, doc) ==
    IF ~geo.fixed
    THEN ClearMarker(destroyGeometry(m, geo, doc))
    ELSE m

\* context.drawElements(geo.primitive, geo.indexBuf.numItems, ...);
\* context.flush()
DrawElements(m, geo) ==
    [m EXCEPT !.calls = Append(Append(@,
                  Ev("drawElements", geo.primitive, geo.indexBuf, 0)),
                  Ev("flush", "", NoBuf, 0)),
              !.ret = "undefined"]

\* drawGeometry from geo.lastUsed = time on; geo is the record with its
\* lastUsed set.
DrawFound(m, geo, geoId, doc) ==
    DrawEnd(DrawElements(ExportAndBind([m EXCEPT !.geometries = Put(@, geoId, geo)],
                                       geo, geoId),
                         geo),
            geo, doc)

\* A lookup that leaves the record's lastUsed as it was.
DrawLookup_KeepsLastUsed(m, t, doc, geoId) ==
    IF m.exc # ""
    THEN m
    ELSE IF Get(m.geometries, geoId) = Null
         THEN [m EXCEPT !.exc = "TypeError"]
         ELSE DrawFound(m, Get(m.geometries, geoId), geoId, doc)

\* drawGeometry from var geo = geometries[geoId] on: a null or missing
\* entry raises a TypeError at geo.lastUsed = time.
DrawLookup(m, t, doc, geoId) ==
    IF m.exc # ""
    THEN m
    ELSE IF Get(m.geometries, geoId) = Null
         THEN [m EXCEPT !.exc = "TypeError"]
         ELSE DrawFound(m, [Get(m.geometries, geoId) EXCEPT !.lastUsed = t], geoId, doc)

\* drawGeometry(geoId)
drawGeometry(m, cv, t, doc, geoId, react) ==
    IF cv = NoCanvas
    THEN [m EXCEPT !.exc = "NoCanvasActiveException"]
    ELSE DrawLookup(FireShaderActivate(m, react, t, doc), t, doc, geoId)

\* ------------------------------------------------------------ RESET handler
\* for (geoId in geometries) destroyGeometry(geometries[geoId]): the
\* TypeError of destroyGeometry on a null entry ends the handler.
RECURSIVE ResetLoop(_, _, _)
ResetLoop(m, i, doc) ==
    IF i > Len(m.geometries) \/ m.exc # ""
    THEN m
    ELSE ResetLoop(destroyGeometry(m, m.geometries[i].geo, doc), i + 1, doc)

\* The statements after the loop: geometries = {}; currentBoundGeo = null.
ResetClear(m) ==
    IF m.exc # ""
    THEN m
    ELSE [m EXCEPT !.geometries = << >>, !.currentBoundGeo = NullId]

\* ------------------------------------------------------------------- state
VARIABLES
    time,             \* var time
    canvas,           \* var canvas (its canvasId), NoCanvas when null
    geometries,       \* var geometries
    currentBoundGeo,  \* var currentBoundGeo, NullId when null
    document,         \* the canvas elements document.getElementById finds
    invalidated,      \* a lifecycle event was delivered since the last successful draw
    last              \* the operation just performed and its result

\* The state of one SceneJS.texture node (texture.js): the closure variables
\* params, layers and matrix, the image loads whose callback is still to
\* come, and the record of the last visit or callback.
VARIABLES
    params,           \* var params, Null until the first visit
    layers,           \* var layers
    matrix,           \* var matrix, shared by the layers of the node
    loads,            \* the layers with an image load in progress
    visited           \* the visit or callback just performed and what it called

geovars == <<time, canvas, geometries, currentBoundGeo, document, invalidated, last>>

texvars == <<params, layers, matrix, loads, visited>>

vars == <<geovars, texvars>>

\* The mutable backend state handed to an operation.
Backend ==
    [geometries |-> geometries, currentBoundGeo |-> currentBoundGeo,
     calls |-> << >>, exc |-> "", ret |-> ""]

\* How many entries of a record of calls are of kind e.
Count(calls, e) == Cardinality({i \in 1..Len(calls) : calls[i].ev = e})

\* The buffers for which a record of calls holds an entry of kind e.
BufsOf(calls, e) == {calls[i].buf : i \in {j \in 1..Len(calls) : calls[j].ev = e}}

\* How many entries of kind e a record of calls holds for buffer b.
CountBuf(calls, e, b) ==
    Cardinality({i \in 1..Len(calls) : calls[i].ev = e /\ calls[i].buf = b})

\* The identifiers evicted according to a record of calls.
EvictedIds(calls) == {calls[i].id : i \in {j \in 1..Len(calls) : calls[j].ev = "evicted"}}

\* The record of an operation: what was called with what, what it returned
\* or threw, how many GEOMETRY_EXPORTED notifications and index-buffer
\* binds it made, which identifiers the evictor removed while it ran, how
\* many buffers it allocated and did not release (pending), and how many
\* buffers it released more than once (doubled). Events that return nothing
\* and make no call (clock ticks, lifecycle events, a canvas leaving the
\* document) are recorded as "event".
Done(m, op, arg) ==
    [op |-> op, arg |-> arg,
     result |-> IF m.exc # "" THEN m.exc ELSE m.ret,
     exports |-> Count(m.calls, "GEOMETRY_EXPORTED"),
     binds |-> Count(m.calls, "bind"),
     evicted |-> EvictedIds(m.calls),
     pending |-> Cardinality({b \in BufsOf(m.calls, "alloc") :
                                 CountBuf(m.calls, "destroy", b) = 0}),
     doubled |-> Cardinality({b \in BufsOf(m.calls, "destroy") :
                                 CountBuf(m.calls, "destroy", b) > 1})]

\* Store the backend state an operation leaves.
Commit(m) ==
    /\ geometries' = m.geometries
    /\ currentBoundGeo' = m.currentBoundGeo

Init ==
    /\ time = 0
    /\ canvas = NoCanvas
    /\ geometries = << >>
    /\ currentBoundGeo = NullId
    /\ document = CanvasIds
    /\ invalidated = FALSE
    /\ last = [op |-> "init", arg |-> "", result |-> "", exports |-> 0, binds |-> 0,
               evicted |-> {}, pending |-> 0, doubled |-> 0]
    /\ params = Null
    /\ layers = << >>
    /\ matrix = << >>
    /\ loads = {}
    /\ visited = [op |-> "init", mode |-> "", data |-> 0, exc |-> "", calls |-> << >>,
                  before |-> << >>]

\* ------------------------------------------------------------------ inputs
\* The data argument of createGeometry: the primitive string ("" when
\* absent), whether data.uv is given, and which required array is absent.
\* The unsupported primitive comes with all four arrays, so that the call
\* it fails has allocated every buffer.
DataSet ==
    {d \in [primitive : {"", "triangles", "hexagon"}, uv : BOOLEAN,
            missing : {"", "normals"}] :
        /\ d.missing # "" => (d.primitive = "triangles" /\ d.uv)
        /\ d.primitive = "" => ~d.uv
        /\ d.primitive = "hexagon" => d.uv}

TotalEvicts(gs) == gs[1].evicts + gs[2].evicts + gs[3].evicts + gs[4].evicts

\* Whether createGeometry(type, d) reaches its i-th allocation under gs:
\* the data arrays up to it are present, the texcoord allocation exists
\* only with data.uv, and no earlier allocation was rejected.
Consulted(d, gs, i) ==
    /\ d.primitive # ""
    /\ d.missing = "normals" => i < 2
    /\ i = 3 => d.uv
    /\ \A j \in 1..(i - 1) : gs[j].grant

\* The authority's behaviour over the (up to four) allocations of one
\* createGeometry call: the evictor is invoked while one of the allocations
\* is served, and the gates that are never consulted are left at their
\* default.
CreateInputs ==
    {in \in [data : DataSet, gates : [1..4 -> Gates]] :
        /\ TotalEvicts(in.gates) <= MaxEvictCalls
        /\ Cardinality({i \in 1..4 : in.gates[i].evicts > 0}) <= 1
        /\ \A i \in 1..4 : ~Consulted(in.data, in.gates, i) =>
               in.gates[i] = [evicts |-> 0, grant |-> TRUE]}

\* ----------------------------------------------------------------- actions
\* TIME_UPDATED: the time source pushes a non-decreasing clock value.
TimeUpdated(t) ==
    /\ t >= time
    /\ time' = t
    /\ last' = Done(Backend, "event", "")
    /\ UNCHANGED <<canvas, geometries, currentBoundGeo, document, invalidated>>
    /\ UNCHANGED texvars

\* SCENE_ACTIVATED
SceneActivated ==
    /\ canvas' = NoCanvas
    /\ currentBoundGeo' = NullId
    /\ invalidated' = TRUE
    /\ last' = Done(Backend, "event", "")
    /\ UNCHANGED <<time, geometries, document>>
    /\ UNCHANGED texvars

\* CANVAS_ACTIVATED(c): c is a canvas of the document.
CanvasActivated(c) ==
    /\ c \in document
    /\ canvas' = c
    /\ currentBoundGeo' = NullId
    /\ invalidated' = TRUE
    /\ last' = Done(Backend, "event", "")
    /\ UNCHANGED <<time, geometries, document>>
    /\ UNCHANGED texvars

\* CANVAS_DEACTIVATED
CanvasDeactivated ==
    /\ canvas' = NoCanvas
    /\ currentBoundGeo' = NullId
    /\ invalidated' = TRUE
    /\ last' = Done(Backend, "event", "")
    /\ UNCHANGED <<time, geometries, document>>
    /\ UNCHANGED texvars

\* SHADER_ACTIVATED, fired by the shader backend outside a draw.
ShaderActivated ==
    /\ Commit(ClearMarker(Backend))
    /\ invalidated' = TRUE
    /\ last' = Done(Backend, "event", "")
    /\ UNCHANGED <<time, canvas, document>>
    /\ UNCHANGED texvars

\* SHADER_DEACTIVATED
ShaderDeactivated ==
    /\ Commit(ClearMarker(Backend))
    /\ invalidated' = TRUE
    /\ last' = Done(Backend, "event", "")
    /\ UNCHANGED <<time, canvas, document>>
    /\ UNCHANGED texvars

\* What an operation leaves: the backend state and the record of the call.
Step(m, op, arg) ==
    /\ Commit(m)
    /\ last' = Done(m, op, arg)

\* RESET: destroy every record, then canvas = null, geometries = {},
\* currentBoundGeo = null (not reached when the loop throws).
ResetStep(m) ==
    /\ Step(m, "RESET", "")
    /\ canvas' = IF m.exc = "" THEN NoCanvas ELSE canvas

Reset ==
    /\ ResetStep(ResetClear(ResetLoop(Backend, 1, document)))
    /\ invalidated' = TRUE
    /\ UNCHANGED <<time, document>>
    /\ UNCHANGED texvars

\* The memory authority invokes the registered evictor.
Evict ==
    /\ Step(Evictor(Backend, time, document), "evictor", "")
    /\ UNCHANGED <<time, canvas, document, invalidated>>
    /\ UNCHANGED texvars

\* A node calls findGeometry(type).
FindGeometry(type) ==
    /\ Step(findGeometry(Backend, canvas, type), "findGeometry", type)
    /\ UNCHANGED <<time, canvas, document, invalidated>>
    /\ UNCHANGED texvars

\* A node calls createGeometry(type, data). Without an active canvas the
\* call ends before the memory authority is asked for anything.
CreateGeometry(type, data, gates) ==
    /\ canvas = NoCanvas => TotalEvicts(gates) = 0 /\ \A i \in 1..4 : gates[i].grant
    /\ Step(createGeometry(Backend, canvas, time, document, type, data, gates),
            "createGeometry", type)
    /\ UNCHANGED <<time, canvas, document, invalidated>>
    /\ UNCHANGED texvars

\* A node calls drawGeometry(geoId). A draw that returns has passed the
\* marker test after every lifecycle event delivered so far.
DrawStep(m, geoId, react) ==
    /\ Step(m, "drawGeometry", geoId)
    /\ invalidated' = IF m.exc = "" THEN FALSE ELSE (invalidated \/ react.activated)

DrawGeometry(geoId, react) ==
    /\ DrawStep(drawGeometry(Backend, canvas, time, document, geoId, react), geoId, react)
    /\ UNCHANGED <<time, canvas, document>>
    /\ UNCHANGED texvars

\* A canvas that is not the active one is removed from the document.
RemoveCanvas(c) ==
    /\ c \in document
    /\ c # canvas
    /\ document' = document \ {c}
    /\ last' = Done(Backend, "event", "")
    /\ UNCHANGED <<time, canvas, geometries, currentBoundGeo, invalidated>>
    /\ UNCHANGED texvars

Next ==
    \/ \E t \in 0..MaxTime : TimeUpdated(t)
    \/ SceneActivated
    \/ \E c \in CanvasIds : CanvasActivated(c)
    \/ CanvasDeactivated
    \/ ShaderActivated
    \/ ShaderDeactivated
    \/ Reset
    \/ Evict
    \/ \E ty \in Types : FindGeometry(ty)
    \/ \E ty \in Types, in \in CreateInputs : CreateGeometry(ty, in.data, in.gates)
    \/ \E id \in AllGeoIds, r \in Reactions : DrawGeometry(id, r)
    \/ \E c \in CanvasIds : RemoveCanvas(c)

Spec == Init /\ [][Next]_vars

\* ============================================================ texture node
\* The most layers a node is configured with, and the most values the data
\* of a visit takes.
MaxLayers == 2

MaxData == 2

\* The states of a texture layer.
STATE_INITIAL == 0

STATE_IMAGE_LOADING == 2

STATE_IMAGE_LOADED == 3

STATE_TEXTURE_CREATED == 4

STATE_ERROR == -1

\* A property that is not given.
Absent == [absent |-> TRUE]

\* var matrix before its first assignment, and the null getMatrix returns.
NoMatrix == << >>

\* A translate, rotate or scale parameter given as a value.
Vec(x, y, z) == [x |-> x, y |-> y, z |-> z]

\* A translate, rotate or scale parameter given as a function of data: the
\* function handed to layer i.
Fn(i) == [fn |-> i]

\* p instanceof Function
IsFunction(p) == DOMAIN p = {"fn"}

\* p(data), for the function handed to a layer.
Apply(p, data) == Vec(10 * p.fn + data, 0, 0)

\* --------------------------------------------------------------- getMatrix
\* v || d
Or(v, d) == IF v = 0 THEN d ELSE v

\* A matrix built by one SceneJS._math constructor from its argument.
Mat(make, v) == [make |-> make, v |-> v]

\* matrix ? mulMat4(matrix, t) : t. A product is kept as the sequence of
\* its factors.
MulOr(m, t) == IF m # NoMatrix THEN Append(m, t) ELSE <<t>>

\* if (translate) matrix = translationMat4v(...)
Translated(translate) ==
    IF translate # Absent
    THEN <<Mat("translationMat4v",
               Vec(Or(translate.x, 0), Or(translate.y, 0), Or(translate.z, 0)))>>
    ELSE NoMatrix

\* if (scale) { t = scalingMat4v(...); matrix = matrix ? mulMat4(matrix, t) : t }
Scaled(m, scale) ==
    IF scale # Absent
    THEN MulOr(m, Mat("scalingMat4v", Vec(Or(scale.x, 1), Or(scale.y, 1), Or(scale.z, 1))))
    ELSE m

\* if (rotate.x) { t = rotationMat4v(angle, axis); ... }, the angle kept
\* in degrees on its axis.
RotatedBy(m, angle, axis) ==
    IF angle # 0 THEN MulOr(m, Mat("rotationMat4v", axis)) ELSE m

\* if (rotate) { x, then y, then z }
Rotated(m, rotate) ==
    IF rotate # Absent
    THEN RotatedBy(RotatedBy(RotatedBy(m,
             rotate.x, Vec(rotate.x, 0, 0)),
             rotate.y, Vec(0, rotate.y, 0)),
             rotate.z, Vec(0, 0, rotate.z))
    ELSE m

\* utils.getMatrix(translate, rotate, scale)
getMatrix(translate, rotate, scale) ==
    Rotated(Scaled(Translated(translate), scale), rotate)

\* ------------------------------------------------------------ createMatrix
\* var dynamic
Dynamic(lp) ==
    IsFunction(lp.translate) \/ IsFunction(lp.rotate) \/ IsFunction(lp.scale)

\* var defined
Defined(lp) ==
    Dynamic(lp) \/ lp.translate # Absent \/ lp.rotate # Absent \/ lp.scale # Absent

\* (p instanceof Function) ? p(data) : p
Value(p, data) == IF IsFunction(p) THEN Apply(p, data) ELSE p

\* layer.createMatrix(data) of the layer made from lp: it assigns the
\* node's matrix variable when the layer defines a transform and either a
\* parameter is a function or the variable is still unset, and returns the
\* variable (n.matrix of the outcome).
createMatrix(n, lp, data) ==
    IF Defined(lp) /\ (Dynamic(lp) \/ n.matrix = NoMatrix)
    THEN [n EXCEPT !.matrix = getMatrix(Value(lp.translate, data),
                                        Value(lp.rotate, data),
                                        Value(lp.scale, data))]
    ELSE n

\* ----------------------------------------------------------- configuration
\* layers.push({ state: STATE_INITIAL, process: null, image: null, ... })
NewLayer(lp) ==
    [state |-> STATE_INITIAL, process |-> 0, image |-> "", texture |-> "",
     creationParams |-> lp, applyFrom |-> "geometry", applyTo |-> "baseColor",
     blendMode |-> "multiply"]

\* The loop over params.layers: a layer without uri ends it with an
\* exception, the layers before it already pushed.
RECURSIVE PrepareLayers(_, _)
PrepareLayers(n, i) ==
    IF i > Len(n.params.layers)
    THEN n
    ELSE IF n.params.layers[i].uri = ""
         THEN [n EXCEPT !.exc = "NodeConfigExpectedException"]
         ELSE PrepareLayers([n EXCEPT !.layers = Append(@, NewLayer(n.params.layers[i]))],
                            i + 1)

\* if (!params) { params = cfg.getParams(data); ... }: params is assigned
\* before it is checked.
Configure(n, cfg) ==
    IF n.params # Null
    THEN n
    ELSE IF ~cfg.hasLayers
         THEN [n EXCEPT !.params = cfg, !.exc = "NodeConfigExpectedException"]
         ELSE PrepareLayers([n EXCEPT !.params = cfg], 1)

\* ------------------------------------------------------------ layer update
\* A call of the texture backend or of the traversal, or an assignment to
\* layer.state (fn = "state", n the state assigned).
Call(fn, layer, k, m) == [fn |-> fn, layer |-> layer, n |-> k, matrix |-> m]

\* layer.state = s
SetState(n, i, s) ==
    [n EXCEPT !.layers[i].state = s,
              !.calls = Append(@, Call("state", i, s, NoMatrix))]

\* if (layer.state == STATE_TEXTURE_CREATED)
\*     if (!textureBackend.textureExists(layer.texture)) layer.state = STATE_INITIAL
CheckExists(n, i, exists) ==
    IF n.layers[i].state # STATE_TEXTURE_CREATED
    THEN n
    ELSE IF exists[i]
         THEN [n EXCEPT !.calls = Append(@, Call("textureExists", i, 1, NoMatrix))]
         ELSE SetState([n EXCEPT !.calls = Append(@, Call("textureExists", i, 0, NoMatrix))],
                       i, STATE_INITIAL)

\* case STATE_INITIAL: state = STATE_IMAGE_LOADING; process = loadImage(...)
StartLoad(n, i) ==
    [SetState(n, i, STATE_IMAGE_LOADING)
        EXCEPT !.calls = Append(@, Call("loadImage", i, 0, NoMatrix)),
               !.layers[i].process = i,
               !.loads = @ \cup {i}]

\* case STATE_IMAGE_LOADED: texture = createTexture(...);
\* imageLoaded(layer.process); state = STATE_TEXTURE_CREATED; countLayersReady++
CreateTexture(n, i) ==
    SetState([n EXCEPT !.calls = Append(Append(@,
                           Call("createTexture", i, 0, NoMatrix)),
                           Call("imageLoaded", i, n.layers[i].process, NoMatrix)),
                       !.layers[i].texture = "texture",
                       !.ready = @ + 1],
             i, STATE_TEXTURE_CREATED)

\* A switch that starts a new load for a layer in STATE_ERROR.
UpdateLayer_RetriesError(n, i) ==
    CASE n.layers[i].state = STATE_TEXTURE_CREATED -> [n EXCEPT !.ready = @ + 1]
      [] n.layers[i].state \in {STATE_INITIAL, STATE_ERROR} -> StartLoad(n, i)
      [] n.layers[i].state = STATE_IMAGE_LOADED -> CreateTexture(n, i)
      [] OTHER -> n

\* switch (layer.state)
UpdateLayer(n, i) ==
    CASE n.layers[i].state = STATE_TEXTURE_CREATED -> [n EXCEPT !.ready = @ + 1]
      [] n.layers[i].state = STATE_INITIAL -> StartLoad(n, i)
      [] n.layers[i].state = STATE_IMAGE_LOADED -> CreateTexture(n, i)
      [] OTHER -> n

\* for (var i = 0; i < layers.length; i++) { ... }
RECURSIVE UpdateLayers(_, _, _)
UpdateLayers(n, i, exists) ==
    IF i > Len(n.layers)
    THEN n
    ELSE UpdateLayers(UpdateLayer(CheckExists(n, i, exists), i), i + 1, exists)

\* ------------------------------------------------------------- application
\* textureBackend.pushLayer(layer.texture, { ..., matrix: m })
PushLayer(n, i) == [n EXCEPT !.calls = Append(@, Call("pushLayer", i, 0, n.matrix))]

\* for (...) pushLayer(layer.texture, { ..., matrix: layer.createMatrix(data) })
RECURSIVE PushLayers(_, _, _)
PushLayers(n, i, data) ==
    IF i > Len(n.layers)
    THEN n
    ELSE PushLayers(PushLayer(createMatrix(n, n.layers[i].creationParams, data), i),
                    i + 1, data)

\* SceneJS._utils.visitChildren(cfg, traversalContext, data)
VisitChildren(n) == [n EXCEPT !.calls = Append(@, Call("visitChildren", 0, 0, NoMatrix))]

\* textureBackend.popLayers(layers.length)
PopLayers(n) ==
    [n EXCEPT !.calls = Append(@, Call("popLayers", 0, Len(n.layers), NoMatrix))]

\* An application that is content with one ready layer.
ApplyLayers_AnyReady(n, mode, data) ==
    IF mode = "picking"
    THEN VisitChildren(n)
    ELSE IF n.ready >= 1 \/ n.ready = Len(n.layers)
         THEN PopLayers(VisitChildren(PushLayers(n, 1, data)))
         ELSE n

\* if (traversalMode == TRAVERSAL_MODE_PICKING) ... else if (countLayersReady == layers.length) ...
ApplyLayers(n, mode, data) ==
    IF mode = "picking"
    THEN VisitChildren(n)
    ELSE IF n.ready = Len(n.layers)
         THEN PopLayers(VisitChildren(PushLayers(n, 1, data)))
         ELSE n

\* The node function from the layer update on; an exception of the
\* configuration has ended the visit.
UpdateAndApply(n, mode, data, exists) ==
    IF n.exc # ""
    THEN n
    ELSE ApplyLayers(UpdateLayers(n, 1, exists), mode, data)

\* The node function of SceneJS.texture: one visit of the node.
texture(n, mode, data, cfg, exists) ==
    UpdateAndApply(Configure(n, cfg), mode, data, exists)

\* ---------------------------------------------------------- load callbacks
\* function(_image) { _layer.image = _image; _layer.state = STATE_IMAGE_LOADED }
OnLoaded(n, i) ==
    SetState([n EXCEPT !.layers[i].image = "image"], i, STATE_IMAGE_LOADED)

\* The error and the abort callback: _layer.state = STATE_ERROR
OnFailed(n, i) == SetState(n, i, STATE_ERROR)

\* ------------------------------------------------------------------ inputs
\* The layer parameters a configuration gives layer i: no transform, a
\* translate value, a translate function, a rotate and a scale value, or
\* no uri.
PlainLayer == [uri |-> "img", translate |-> Absent, rotate |-> Absent, scale |-> Absent]

LayerParams(i) ==
    {PlainLayer,
     [PlainLayer EXCEPT !.translate = Vec(i, 0, 0)],
     [PlainLayer EXCEPT !.translate = Fn(i)],
     [PlainLayer EXCEPT !.rotate = Vec(0, 90 * i, 0), !.scale = Vec(i + 1, 0, 1)],
     [PlainLayer EXCEPT !.uri = ""]}

\* The sequences of layer parameters of length k.
LayerSeqs(k) == {q \in [1..k -> UNION {LayerParams(i) : i \in 1..k}] :
                    \A i \in 1..k : q[i] \in LayerParams(i)}

\* What cfg.getParams(data) returns: layers undefined, or up to MaxLayers
\* layer parameters.
Configs ==
    {[hasLayers |-> FALSE, layers |-> << >>]}
        \cup {[hasLayers |-> TRUE, layers |-> q] : q \in UNION {LayerSeqs(k) : k \in 0..MaxLayers}}

\* The configuration of a node that has none yet; a configured node does
\* not ask again.
ConfigsFor(p) == IF p = Null THEN Configs ELSE {p}

\* What textureExists answers for each layer; the answer matters for the
\* layers in STATE_TEXTURE_CREATED.
Answers(ls) ==
    {e \in [1..MaxLayers -> BOOLEAN] :
        \A i \in 1..MaxLayers :
            (i > Len(ls) \/ ls[i].state # STATE_TEXTURE_CREATED) => e[i]}

\* ----------------------------------------------------------------- actions
\* The node state handed to a visit or a callback.
Node ==
    [params |-> params, layers |-> layers, matrix |-> matrix, loads |-> loads,
     calls |-> << >>, exc |-> "", ready |-> 0]

\* Store what a visit or a callback leaves, and its record: the kind of
\* step, the traversal mode and the data of a visit, the exception that
\* ended it, what it called and assigned, and the states the layers were in
\* before it.
Visited(n, op, mode, data) ==
    /\ params' = n.params
    /\ layers' = n.layers
    /\ matrix' = n.matrix
    /\ loads' = n.loads
    /\ visited' = [op |-> op, mode |-> mode, data |-> data, exc |-> n.exc, calls |-> n.calls,
                   before |-> [i \in 1..Len(layers) |-> layers[i].state]]

\* The traversal visits the node, with what cfg.getParams and
\* textureExists answer during the visit.
Visit(mode, data) ==
    /\ \E cfg \in ConfigsFor(params), exists \in Answers(layers) :
           Visited(texture(Node, mode, data, cfg, exists), "visit", mode, data)
    /\ UNCHANGED geovars

\* The image of layer i has loaded.
ImageLoaded(i) ==
    /\ i \in loads
    /\ Visited(OnLoaded([Node EXCEPT !.loads = @ \ {i}], i), "loaded", "", 0)
    /\ UNCHANGED geovars

\* The image load of layer i has failed or was aborted.
ImageFailed(i) ==
    /\ i \in loads
    /\ Visited(OnFailed([Node EXCEPT !.loads = @ \ {i}], i), "failed", "", 0)
    /\ UNCHANGED geovars

TexNext ==
    \/ \E mode \in {"render", "picking"}, data \in 1..MaxData : Visit(mode, data)
    \/ \E i \in 1..MaxLayers : ImageLoaded(i)
    \/ \E i \in 1..MaxLayers : ImageFailed(i)

TexSpec == Init /\ [][TexNext]_vars

\* ------------------------------------------------- vocabulary of the claims
\* The live records of a cache.
Records(g) == {g[i].geo : i \in {j \in 1..Len(g) : g[j].geo # Null}}

\* A shader backend that neither announces a shader nor causes eviction.
QuietReaction == [evicts |-> 0, activated |-> FALSE]

\* The exceptions createGeometry can end with.
CreateErrors ==
    {"NoCanvasActiveException", "NodeConfigExpectedException", "TypeError",
     "OutOfVRAMException", "InvalidGeometryConfigException"}

\* The state just after a successful createGeometry(last.arg).
JustCreated ==
    /\ last.op = "createGeometry"
    /\ canvas # NoCanvas
    /\ last.result = GeoIdOf(canvas, last.arg)

\* The state just after a successful drawGeometry(last.arg).
JustDrawn == last.op = "drawGeometry" /\ last.result = "undefined"

\* ---------------------------------------------------------------------- C1
\* C1 (as claimed): no invocation of the evictor, called by the memory
\* authority directly or during createGeometry, destroys the record that
\* currentBoundGeo names.
C1_EvictorSparesBound ==
    [][(/\ last'.op \in {"evictor", "createGeometry"}
        /\ currentBoundGeo # NullId
        /\ Get(geometries, currentBoundGeo) # Null)
       => Get(geometries', currentBoundGeo) # Null]_vars

\* ---------------------------------------------------------------------- C2
\* The exports and binds of two draws in a row: first is the record of the
\* first, m the outcome of the second.
OneExport(first, m) ==
    /\ m.exc = ""
    /\ first.exports + Count(m.calls, "GEOMETRY_EXPORTED") = 1
    /\ first.binds + Count(m.calls, "bind") = 1
    /\ Count(m.calls, "drawElements") = 1

\* C2 (as claimed): right after a successful draw of an identifier, a second
\* draw of it with no lifecycle event and no eviction in between succeeds,
\* and over the two draws exactly one GEOMETRY_EXPORTED is fired and the
\* index buffer is bound exactly once.
C2_ExactlyOneExport ==
    JustDrawn =>
        OneExport(last, drawGeometry(Backend, canvas, time, document, last.arg, QuietReaction))

\* A draw that took the fast path: m is its outcome.
Skipped(m, geoId) ==
    /\ m.exc = ""
    /\ Count(m.calls, "GEOMETRY_EXPORTED") = 0
    /\ Count(m.calls, "disableVertexAttribArray") = 0
    /\ Count(m.calls, "bind") = 0
    /\ Count(m.calls, "drawElements") = 1
    /\ m.currentBoundGeo = geoId

\* C2 (amended): the second draw succeeds, fires no GEOMETRY_EXPORTED,
\* disables no attribute slot, binds nothing and issues one draw call; over
\* the two draws there is one export and one bind when the first draw took
\* the full path and none when the first draw was itself a repeat.
C2_SecondDrawSkips ==
    JustDrawn =>
        /\ Skipped(drawGeometry(Backend, canvas, time, document, last.arg, QuietReaction),
                   last.arg)
        /\ last.exports = last.binds
        /\ last.exports \in {0, 1}

\* Reached after a draw that took the fast path: the second of two draws.
C2_Witness == JustDrawn /\ last.exports = 0 /\ currentBoundGeo = last.arg

\* ---------------------------------------------------------------------- C3
\* C3 (as claimed): once one of the six lifecycle events was delivered, the
\* next successful draw fires GEOMETRY_EXPORTED and binds the index buffer.
C3_FullPathAfterEvent ==
    [][(/\ last'.op = "drawGeometry"
        /\ last'.result = "undefined"
        /\ invalidated)
       => (last'.exports = 1 /\ last'.binds = 1)]_vars

\* ---------------------------------------------------------------------- C4
\* A successful createGeometry over the record old leaves one record under
\* geoId and has released each buffer of old; m is the outcome of the call.
Replaced(m, old, geoId) ==
    m.exc = "" =>
        /\ Get(m.geometries, geoId) # Null
        /\ Cardinality({i \in 1..Len(m.geometries) : m.geometries[i].geoId = geoId}) = 1
        /\ \A b \in BuffersOf(old) : CountBuf(m.calls, "destroy", b) = 1

\* C4 (as claimed): right after createGeometry(type) succeeded, a second
\* successful createGeometry(type) on the same canvas leaves one live record
\* under the identifier and has released each buffer of the first record.
C4_ReplaceReleasesOld ==
    JustCreated =>
        \A in \in CreateInputs :
            Replaced(createGeometry(Backend, canvas, time, document, last.arg,
                                    in.data, in.gates),
                     Get(geometries, last.result), last.result)

\* ---------------------------------------------------------------------- C5
\* C5 (as claimed): a createGeometry call that ends with the primitive
\* rejected or an allocation rejected leaves the live records as they were.
C5_FailedCreateKeepsCache ==
    [][(/\ last'.op = "createGeometry"
        /\ last'.result \in {"InvalidGeometryConfigException", "OutOfVRAMException"})
       => Records(geometries') = Records(geometries)]_vars

\* C5 (amended): a createGeometry call that ends with an exception stores
\* and changes no record; the records it removes are those the evictor
\* destroyed while the memory authority served the call, and when the
\* evictor destroyed none the cache and the marker are as before.
C5_FailedCreateOnlyEvicts ==
    [][(/\ last'.op = "createGeometry"
        /\ last'.result \in CreateErrors)
       => /\ Records(geometries') \subseteq Records(geometries)
          /\ {r.geoId : r \in Records(geometries) \ Records(geometries')} = last'.evicted
          /\ last'.evicted = {} =>
                 (geometries' = geometries /\ currentBoundGeo' = currentBoundGeo)]_vars

\* Reached when a rejected createGeometry call has taken a record with it.
C5_Witness ==
    /\ last.op = "createGeometry"
    /\ last.result = "OutOfVRAMException"
    /\ last.evicted # {}

\* ---------------------------------------------------------------------- C6
\* C6: a createGeometry call that ends with an exception has released every
\* buffer it allocated, each once, and every record of the cache holds its
\* vertex, normal and index buffers (and the texcoord buffer or none).
C6_FailedCreateReleasesAll ==
    /\ (last.op = "createGeometry" /\ last.result \in CreateErrors) =>
           (last.pending = 0 /\ last.doubled = 0)
    /\ \A r \in Records(geometries) :
           /\ r.vertexBuf = Held(ArrayBuffer(r.canvas, r.type, "vertex"))
           /\ r.normalBuf = Held(ArrayBuffer(r.canvas, r.type, "normal"))
           /\ r.indexBuf = Held(ArrayBuffer(r.canvas, r.type, "index"))
           /\ r.texCoordBuf \in {NoBuf, Held(ArrayBuffer(r.canvas, r.type, "texcoord"))}
           /\ r.primitive # ""

\* Reached when createGeometry failed on the primitive, after all four
\* buffers were allocated.
C6_Witness ==
    /\ last.op = "createGeometry"
    /\ last.result = "InvalidGeometryConfigException"

\* ---------------------------------------------------------------------- C7
\* The positions of the records the evictor may take: live, owning canvas
\* in the document, last used before the current time.
Candidates ==
    {i \in 1..Len(geometries) :
        /\ geometries[i].geo # Null
        /\ geometries[i].geo.canvas \in document
        /\ geometries[i].geo.lastUsed < time}

\* The candidate with the least lastUsed, the first in key order on a tie.
Oldest ==
    CHOOSE i \in Candidates :
        \A j \in Candidates :
            \/ geometries[i].geo.lastUsed < geometries[j].geo.lastUsed
            \/ geometries[i].geo.lastUsed = geometries[j].geo.lastUsed /\ i <= j

\* C7 (as claimed): an evictor invocation made while a candidate exists
\* returns true and destroys one record, the oldest candidate.
C7_EvictsOldest ==
    [][(last'.op = "evictor" /\ Candidates # {})
       => /\ last'.result = "true"
          /\ Records(geometries') = Records(geometries) \ {geometries[Oldest].geo}
          /\ last'.evicted = {geometries[Oldest].geoId}]_vars

\* ---------------------------------------------------------------------- C8
\* C8 (as claimed): every evictor invocation returns true or false, and one
\* made when no live record is left returns false and changes nothing.
C8_EvictorReturnsBoolean ==
    [][last'.op = "evictor"
       => /\ last'.result \in {"true", "false"}
          /\ Records(geometries) = {} =>
                 /\ last'.result = "false"
                 /\ UNCHANGED <<time, canvas, geometries, currentBoundGeo, document>>]_vars

\* ---------------------------------------------------------------------- C9
\* C9 (as claimed): an evictor invocation made while a live record other
\* than the bound one has its canvas in the document (and was last used
\* before the current time) returns true and destroys a record.
C9_FailsOnlyWithoutCandidate ==
    [][(/\ last'.op = "evictor"
        /\ \E i \in Candidates : geometries[i].geoId # currentBoundGeo)
       => /\ last'.result = "true"
          /\ Cardinality(Records(geometries')) = Cardinality(Records(geometries)) - 1]_vars

\* --------------------------------------------------------------------- C10
\* A lookup that called nothing and changed nothing; m is its outcome.
Pure(m) ==
    /\ m.calls = << >>
    /\ m.geometries = geometries
    /\ m.currentBoundGeo = currentBoundGeo

\* C10: right after createGeometry(type) returned an identifier,
\* findGeometry(type) returns that identifier; and in every state
\* findGeometry calls nothing and leaves the cache and the marker alone.
C10_FindAfterCreate ==
    /\ JustCreated => findGeometry(Backend, canvas, last.arg).ret = last.result
    /\ \A ty \in Types : Pure(findGeometry(Backend, canvas, ty))

\* Reached when findGeometry has returned the identifier of a record.
C10_Witness ==
    /\ last.op = "findGeometry"
    /\ canvas # NoCanvas
    /\ last.result = GeoIdOf(canvas, last.arg)

\* --------------------------------------------------------------------- C11
\* A draw that was refused as unknown before anything happened; m is its
\* outcome.
RefusedUnknown(m) ==
    /\ m.exc = "UnknownGeometryException"
    /\ m.calls = << >>
    /\ m.geometries = geometries
    /\ m.currentBoundGeo = currentBoundGeo

\* C11 (as claimed): with a canvas active, drawGeometry of an identifier
\* that resolves to no live record fails with the unknown-geometry error,
\* having fired nothing and changed neither the marker nor a record.
C11_UnknownGeometry ==
    canvas # NoCanvas =>
        \A id \in AllGeoIds, r \in Reactions :
            Get(geometries, id) = Null =>
                RefusedUnknown(drawGeometry(Backend, canvas, time, document, id, r))

\* --------------------------------------------------------------------- C12
\* C12 (as claimed): RESET, SCENE_ACTIVATED and CANVAS_DEACTIVATED leave no
\* canvas active, and while none is active findGeometry, createGeometry
\* and drawGeometry fail with NoCanvasActiveException, fire nothing,
\* allocate nothing and change neither the cache nor the marker.
C12_NoCanvasActive ==
    [][/\ last'.op = "RESET" => canvas' = NoCanvas
       /\ (/\ canvas = NoCanvas
           /\ last'.op \in {"findGeometry", "createGeometry", "drawGeometry"})
          => /\ last'.result = "NoCanvasActiveException"
             /\ last'.exports = 0 /\ last'.binds = 0 /\ last'.pending = 0
             /\ geometries' = geometries
             /\ currentBoundGeo' = currentBoundGeo]_vars

\* --------------------------------------------------------------------- C13
\* A destroy that did nothing; m is its outcome.
NoOp(m) ==
    /\ m.exc = ""
    /\ Count(m.calls, "destroy") = 0
    /\ m.geometries = geometries
    /\ m.currentBoundGeo = currentBoundGeo

\* C13 (as claimed): destroyGeometry of an entry that was destroyed before
\* raises no error, releases no buffer and changes neither the cache nor
\* the marker.
C13_DestroyIdempotent ==
    \A i \in 1..Len(geometries) :
        geometries[i].geo = Null =>
            NoOp(destroyGeometry(Backend, geometries[i].geo, document))

\* --------------------------------------------------------------------- C14
\* C14 (as claimed): RESET ends without an error and leaves the cache
\* empty, no canvas active and the marker unset.
C14_ResetClearsAll ==
    [][last'.op = "RESET"
       => /\ last'.result = ""
          /\ geometries' = << >>
          /\ canvas' = NoCanvas
          /\ currentBoundGeo' = NullId]_vars

\* The calls of m release every buffer of record r, each exactly once, and
\* no other buffer.
ReleasedOnce(m, r) ==
    /\ BufsOf(m.calls, "destroy") = BuffersOf(r)
    /\ \A b \in BuffersOf(r) : CountBuf(m.calls, "destroy", b) = 1

\* m is the outcome of destroying the live record r in the current state.
Destroyed(m, r) ==
    /\ m.exc = ""
    /\ Get(m.geometries, r.geoId) = Null
    /\ \A id \in AllGeoIds \ {r.geoId} : Get(m.geometries, id) = Get(geometries, id)
    /\ m.currentBoundGeo = IF currentBoundGeo = r.geoId THEN NullId ELSE currentBoundGeo
    /\ IF r.canvas \in document
       THEN ReleasedOnce(m, r)
       ELSE Count(m.calls, "destroy") = 0

\* C16: destroying a live record leaves its identifier unresolved and the
\* other records as they were, and clears the marker exactly when the marker
\* named the record, whether or not the record's canvas is still in the
\* document; when the canvas is in the document each buffer the record holds
\* (vertex, normal, index, texcoord when present) is released exactly once,
\* and when the canvas has disappeared no buffer is released.
C16_DestroyReleasesOnce ==
    \A r \in Records(geometries) :
        Destroyed(destroyGeometry(Backend, r, document), r)

\* An eviction has just destroyed a record: its identifier no longer resolves.
C16_Witness ==
    /\ last.op = "evictor"
    /\ last.result = "true"
    /\ \E id \in last.evicted : HasKey(geometries, id) /\ Get(geometries, id) = Null

\* The position of the first entry of kind e in a record of calls.
Pos(calls, e) == CHOOSE i \in 1..Len(calls) : calls[i].ev = e /\ \A j \in 1..(i - 1) : calls[j].ev # e

\* The calls of a draw that exported: one export, then one bind of the
\* index buffer, then the draw call.
FullPath(calls) ==
    /\ Count(calls, "GEOMETRY_EXPORTED") = 1
    /\ Count(calls, "bind") = 1
    /\ Pos(calls, "SHADER_ACTIVATE") < Pos(calls, "GEOMETRY_EXPORTED")
    /\ Pos(calls, "GEOMETRY_EXPORTED") < Pos(calls, "bind")
    /\ Pos(calls, "bind") < Pos(calls, "drawElements")

\* The calls of a draw that took the fast path: no export and no bind.
FastPath(calls) == Count(calls, "GEOMETRY_EXPORTED") = 0 /\ Count(calls, "bind") = 0

\* m is the outcome of a successful drawGeometry(id), m1 the state in which
\* the shader backend left the marker when it had handled SHADER_ACTIVATE.
Ordered(m1, m, id) ==
    /\ m.calls[1].ev = "SHADER_ACTIVATE"
    /\ Count(m.calls, "SHADER_ACTIVATE") = 1
    /\ Count(m.calls, "drawElements") = 1
    /\ Pos(m.calls, "SHADER_ACTIVATE") < Pos(m.calls, "drawElements")
    /\ m.currentBoundGeo = id
    /\ IF m1.currentBoundGeo # id THEN FullPath(m.calls) ELSE FastPath(m.calls)

\* C17: every successful draw, whatever the shader backend does on the
\* request, first issues the shader-activation request (exactly one, also
\* when the marker already names the identifier), then, exactly when the
\* marker differs from the identifier at that point, one geometry-export
\* notification followed by one index-buffer bind, then exactly one draw
\* call; a draw that exports sets the marker to its identifier.
C17_DrawOrder ==
    canvas # NoCanvas =>
        \A id \in AllGeoIds, r \in Reactions :
            drawGeometry(Backend, canvas, time, document, id, r).exc = "" =>
                Ordered(FireShaderActivate(Backend, r, time, document),
                        drawGeometry(Backend, canvas, time, document, id, r), id)

\* A draw has just gone the full path: it exported and bound once.
C17_Witness == JustDrawn /\ last.exports = 1 /\ last.binds = 1 /\ currentBoundGeo = last.arg

\* The step just taken stored a new record under id: a createGeometry that
\* returned id.
CreatedBy(l, id) == l.op = "createGeometry" /\ l.result = id

\* The step just taken was a successful drawGeometry(id).
DrawnBy(l, id) == l.op = "drawGeometry" /\ l.result = "undefined" /\ l.arg = id

\* The lastUsed of the record new, live under id after a step recorded as
\* l and taken at clock value t, where old is the entry under id before the
\* step: t for a creation or a successful draw, the old value otherwise.
LastUsedAfter(old, new, l, id, t) ==
    IF CreatedBy(l, id) \/ DrawnBy(l, id)
    THEN new.lastUsed = t
    ELSE old # Null /\ new.lastUsed = old.lastUsed

\* C18: a record's lastUsed is the clock value of its creation, becomes the
\* current clock value with every successful draw of it, and is left as it
\* is by clock ticks and every other operation; with the clock never going
\* back, no live record's lastUsed exceeds the clock.
C18_LastUsed ==
    [][\A id \in AllGeoIds :
           Get(geometries', id) # Null =>
               /\ Get(geometries', id).lastUsed <= time'
               /\ LastUsedAfter(Get(geometries, id), Get(geometries', id), last', id, time)]_vars

\* A record has just been drawn after the clock advanced: its lastUsed is
\* the current clock value, while another live record keeps an older one.
C18_Witness ==
    /\ JustDrawn
    /\ time > 0
    /\ Get(geometries, last.arg) # Null
    /\ Get(geometries, last.arg).lastUsed = time
    /\ \E r \in Records(geometries) : r.lastUsed < time

\* C19: the marker comes to name an identifier only by a drawGeometry of
\* that identifier that exports and binds; clock ticks, findGeometry and
\* createGeometry leave the marker as it is; and an identifier named by the
\* marker resolves to a live record.
C19_MarkerDiscipline ==
    [][/\ (currentBoundGeo' # NullId /\ currentBoundGeo' # currentBoundGeo)
          => (DrawnBy(last', currentBoundGeo') /\ last'.exports = 1 /\ last'.binds = 1)
       /\ (time' # time \/ last'.op \in {"findGeometry", "createGeometry"})
          => currentBoundGeo' = currentBoundGeo
       /\ currentBoundGeo' # NullId => Get(geometries', currentBoundGeo') # Null]_vars

\* C20, in the case the claim singles out: once createGeometry has put a
\* new record under the identifier the marker names, the next drawGeometry
\* of that identifier (the shader backend staying quiet) does not take the
\* fast path: it exports and binds the buffers of the record now stored,
\* so that what was last exported and bound is never an older record's.
C20_ReplacedIsReexported ==
    (JustCreated /\ canvas # NoCanvas /\ currentBoundGeo = last.result) =>
        FullPath(drawGeometry(Backend, canvas, time, document, currentBoundGeo,
                              QuietReaction).calls)

\* m is the outcome of a drawGeometry(id) that reached its draw call for
\* the record stored under id, which is still live afterwards.
ReachedDrawCall(m, id) ==
    /\ m.exc = ""
    /\ Count(m.calls, "drawElements") = 1
    /\ id \notin EvictedIds(m.calls)
    /\ Get(m.geometries, id) # Null

\* C21: with a canvas active, drawGeometry of an identifier that resolves
\* to a live record reaches its draw call for that record whatever the
\* shader backend does on the shader-activation request, evictions through
\* the memory authority included: the record being drawn is not evicted
\* between the entry to drawGeometry and the draw call.
C21_DrawnRecordSurvives ==
    canvas # NoCanvas =>
        \A id \in LiveIds(geometries), r \in Reactions :
            ReachedDrawCall(drawGeometry(Backend, canvas, time, document, id, r), id)

\* The entry e is a live record last used at clock value t.
UsedAt(e, t) == e # Null /\ e.lastUsed = t

\* C22: a record whose lastUsed equals the current clock value is removed
\* by no eviction, whether the memory authority invokes the evictor on its
\* own or during a createGeometry or a drawGeometry: it is not among the
\* records the step evicted, and findGeometry, createGeometry, drawGeometry
\* and the evictor leave its identifier resolving to a live record.
C22_CurrentSurvives ==
    [][\A id \in AllGeoIds :
           UsedAt(Get(geometries, id), time) =>
               /\ id \notin last'.evicted
               /\ last'.op \in {"evictor", "findGeometry", "createGeometry", "drawGeometry"}
                  => Get(geometries', id) # Null]_vars

\* The evictor has just removed a record while a record last used at the
\* current clock value, its canvas still in the document, stayed.
C22_Witness ==
    /\ last.op = "evictor"
    /\ last.result = "true"
    /\ last.evicted # {}
    /\ \E r \in Records(geometries) : r.lastUsed = time /\ r.canvas \in document

\* --------------------------------------------- claims on the texture node
\* The places of a record of calls that hold an entry of kind fn for layer i.
CallsOf(calls, fn, i) == {j \in 1..Len(calls) : calls[j].fn = fn /\ calls[j].layer = i}

\* How many entries of kind fn a record of calls holds.
CountCalls(calls, fn) == Cardinality({j \in 1..Len(calls) : calls[j].fn = fn})

\* The state of layer i before the step recorded as v; a layer the step
\* created started in STATE_INITIAL.
StateBefore(v, i) == IF i <= Len(v.before) THEN v.before[i] ELSE STATE_INITIAL

\* The greatest element of a non-empty set of numbers.
Greatest(S) == CHOOSE x \in S : \A y \in S : y <= x

\* The state a layer is in after the assignments at the places `at` of
\* calls, having been in state s0 before them.
StateAfter(calls, at, s0) == IF at = {} THEN s0 ELSE calls[Greatest(at)].n

\* The transitions of a layer's state a visit may make, and those a load
\* callback may make.
VisitMoves ==
    {<<STATE_INITIAL, STATE_IMAGE_LOADING>>,
     <<STATE_IMAGE_LOADED, STATE_TEXTURE_CREATED>>,
     <<STATE_TEXTURE_CREATED, STATE_INITIAL>>}

CallbackMoves ==
    {<<STATE_IMAGE_LOADING, STATE_IMAGE_LOADED>>,
     <<STATE_IMAGE_LOADING, STATE_ERROR>>}

MovesOf(op) == IF op = "visit" THEN VisitMoves ELSE CallbackMoves

\* Every assignment at the places `at` of calls moves the layer, in state
\* s0 before them, by one of moves, and the layer ends in state s1.
Follows(calls, at, moves, s0, s1) ==
    /\ \A j \in at :
           <<StateAfter(calls, {k \in at : k < j}, s0), calls[j].n>> \in moves
    /\ StateAfter(calls, at, s0) = s1

\* How many of the assignments at the places `at` of calls assign state s.
Entries(calls, at, s) == Cardinality({j \in at : calls[j].n = s})

\* What a step did about layer i matches the moves of its state: one image
\* load started per move to STATE_IMAGE_LOADING, one texture created and
\* one load process ended per move to STATE_TEXTURE_CREATED, one negative
\* answer of textureExists per move back to STATE_INITIAL, and each of
\* them at most once.
Accounted(calls, at, i) ==
    /\ Cardinality(CallsOf(calls, "loadImage", i)) = Entries(calls, at, STATE_IMAGE_LOADING)
    /\ Cardinality(CallsOf(calls, "createTexture", i)) = Entries(calls, at, STATE_TEXTURE_CREATED)
    /\ Cardinality(CallsOf(calls, "imageLoaded", i)) = Entries(calls, at, STATE_TEXTURE_CREATED)
    /\ Cardinality({j \in CallsOf(calls, "textureExists", i) : calls[j].n = 0})
           = Entries(calls, at, STATE_INITIAL)
    /\ \A s \in {STATE_IMAGE_LOADING, STATE_TEXTURE_CREATED, STATE_INITIAL} :
           Entries(calls, at, s) <= 1

\* The step recorded as v took layer i from state s0 to state s1 by the
\* moves allowed to it, and left it alone if it was in STATE_ERROR.
LayerMoves(v, at, i, s0, s1) ==
    /\ Follows(v.calls, at, MovesOf(v.op), s0, s1)
    /\ Accounted(v.calls, at, i)
    /\ s0 = STATE_ERROR => (s1 = STATE_ERROR /\ CallsOf(v.calls, "loadImage", i) = {})

\* C23: in every visit and every load callback (the step the state
\* records as visited) the state of each layer moves only from INITIAL to IMAGE_LOADING (a visit, which starts exactly
\* one image load), from IMAGE_LOADING to IMAGE_LOADED or ERROR (a load
\* callback), from IMAGE_LOADED to TEXTURE_CREATED (a visit, which creates
\* the texture and ends the load process exactly once) and from
\* TEXTURE_CREATED to INITIAL (a visit in which textureExists answers no);
\* a layer in ERROR stays there and no load is started for it.
C23_LayerStates ==
    \A i \in 1..Len(layers) :
        LayerMoves(visited, CallsOf(visited.calls, "state", i), i,
                   StateBefore(visited, i), layers[i].state)

\* A visit has just found the texture of a layer gone and started to load
\* its image again, while another layer is in STATE_ERROR.
C23_Witness ==
    /\ visited.op = "visit"
    /\ \E i \in 1..Len(layers) :
           /\ layers[i].state = STATE_IMAGE_LOADING
           /\ CallsOf(visited.calls, "textureExists", i) # {}
    /\ \E i \in 1..Len(layers) : layers[i].state = STATE_ERROR

\* Every layer of ls is in STATE_TEXTURE_CREATED.
AllCreated(ls) == \A i \in 1..Len(ls) : ls[i].state = STATE_TEXTURE_CREATED

\* The only entry of kind fn in calls is at place j.
OnlyAt(calls, fn, j) == {k \in 1..Len(calls) : calls[k].fn = fn} = {j}

\* calls applies the k layers around the children: one pushLayer for each
\* layer, all before the one visit of the children, and one popLayers(k)
\* after it.
Applied(calls, k) ==
    /\ CountCalls(calls, "pushLayer") = k
    /\ \A i \in 1..k : Cardinality(CallsOf(calls, "pushLayer", i)) = 1
    /\ \E c \in 1..Len(calls) :
           /\ OnlyAt(calls, "visitChildren", c)
           /\ \A j \in 1..Len(calls) : calls[j].fn = "pushLayer" => j < c
           /\ \E q \in (c + 1)..Len(calls) :
                  OnlyAt(calls, "popLayers", q) /\ calls[q].n = k

\* calls visits the children once and pushes and pops nothing.
ChildrenOnly(calls) ==
    /\ CountCalls(calls, "visitChildren") = 1
    /\ CountCalls(calls, "pushLayer") = 0
    /\ CountCalls(calls, "popLayers") = 0

\* calls neither visits the children nor pushes or pops a layer.
NothingApplied(calls) ==
    /\ CountCalls(calls, "visitChildren") = 0
    /\ CountCalls(calls, "pushLayer") = 0
    /\ CountCalls(calls, "popLayers") = 0

\* What a visit in render mode recorded as v must have done, the layers
\* being ls after it.
RenderVisit(v, ls) ==
    IF v.exc = "" /\ AllCreated(ls)
    THEN Applied(v.calls, Len(ls))
    ELSE NothingApplied(v.calls)

\* C24 as stated: a visit in render mode visits the children only if every
\* layer is in STATE_TEXTURE_CREATED at that visit, and then makes one
\* pushLayer per layer before the children and popLayers(number of layers)
\* after them, and otherwise neither visits the children nor pushes a
\* layer; a visit in picking mode always visits the children and pushes and
\* pops no layer.
C24_ChildrenGated ==
    visited.op = "visit" =>
        IF visited.mode = "picking"
        THEN ChildrenOnly(visited.calls)
        ELSE RenderVisit(visited, layers)

\* C24, amended: as above, but a visit in picking mode visits the children
\* when it is not ended by an exception (the one the configuration of the
\* node raises on its first visit); a visit that is ended by it visits
\* nothing and pushes nothing in either mode.
C24_ChildrenGatedUnlessThrown ==
    visited.op = "visit" =>
        IF visited.mode = "picking"
        THEN IF visited.exc = ""
             THEN ChildrenOnly(visited.calls)
             ELSE NothingApplied(visited.calls)
        ELSE RenderVisit(visited, layers)

\* A visit in render mode has just applied two ready layers around the
\* children.
C24_Witness ==
    /\ visited.op = "visit"
    /\ visited.mode = "render"
    /\ Len(layers) = 2
    /\ AllCreated(layers)
    /\ CountCalls(visited.calls, "visitChildren") = 1

\* The matrix of the layer made from lp at a visit with the given data: the
\* one getMatrix computes from the layer's own parameters, NoMatrix (null)
\* for a layer that defines none of them.
OwnMatrix(lp, data) ==
    getMatrix(Value(lp.translate, data), Value(lp.rotate, data), Value(lp.scale, data))

\* C25: on every visit, the first and the later ones, the matrix passed to
\* pushLayer for a layer is the one computed from that layer's own
\* translate, rotate and scale parameters, null for a layer that defines
\* none of them, and never one computed from another layer's parameters.
C25_OwnMatrix ==
    visited.op = "visit" =>
        \A j \in 1..Len(visited.calls) :
            visited.calls[j].fn = "pushLayer" =>
                visited.calls[j].matrix
                    = OwnMatrix(layers[visited.calls[j].layer].creationParams, visited.data)

====
